---- MODULE Spec2Model ----
(***************************************************************************)
(* Distance-sensor pose correction (src/distance_reset.cpp).               *)
(*                                                                         *)
(* Numbers.  The C++ code works in double.  Here every quantity is an      *)
(* integer count of a fixed step:                                          *)
(*   - lengths in tenths of a millimetre, so that one inch is 254 steps    *)
(*     and the conversion get() / 25.4 of a whole number of millimetres    *)
(*     is exact (mm * 10 steps);                                           *)
(*   - angles in 1/AngUnit of a degree, so that headings that are not a    *)
(*     whole number of degrees exist and (int) truncation is visible;      *)
(*   - cos() as thousandths, atan2() to the nearest angle step.            *)
(* atan2 and cos are exact at the arguments where the C library is exact   *)
(* (atan2(0, s) = 0 for s >= 0, atan2(d, 0) = +-90, cos(0) = 1) and keep   *)
(* the symmetries atan2(-y, x) = -atan2(y, x) and cos(-a) = cos(a).        *)
(***************************************************************************)
EXTENDS Integers, Sequences, FiniteSets, TLC

\* ------------------------------------------------------------------ bounds
\* angle steps per degree (resolution of headings and angles)
AngUnit == 2
\* initial headings lie within MaxOff angle steps of a multiple of 45 degrees
MaxOff == 1
\* ... the multiples k * 45 degrees with -MaxEighths <= k <= MaxEighths
MaxEighths == 8
\* initial positions (12 i, -5 (i + 1)) inches for i in 0 .. MaxTile
MaxTile == 1
\* timeout_ms offered to driveUntilDistance: -MaxTimeoutMs .. MaxTimeoutMs
MaxTimeoutMs == 25
\* valid sensor readings offered: 0 and 5, 10, ..., 5 * MaxReadSteps inches
MaxReadSteps == 2
\* sensor mounting offsets offered: 1 .. MaxOffsetIn inches
MaxOffsetIn == 2
\* sensor spacing offered: 0 (misconfigured) and SpacingIn inches
SpacingIn == 6
\* whole turns added to a heading when two headings are compared
MaxTurns == 1
\* milliseconds between two update() calls: 0, TickMs or 2 TickMs
TickMs == 50
\* pros::millis() is followed up to MaxClockMs
MaxClockMs == 300

\* --------------------------------------------------------- program constants
\* get() / 25.4: tenths of a millimetre in one inch
TenthMmPerInch == 254
\* plausibility bound of a reading, in inches
MaxPlausible == 200
\* default field_half, in inches
FieldHalfIn == 72
\* PROS_ERR, the value get() returns when the sensor has no reading (INT32_MAX)
PROS_ERR == 2147483647
\* pros::delay(10); elapsed += 10
PollMs == 10
\* default speed of driveUntilDistance, and the speed and threshold (inches)
\* of its usage example
DefaultSpeed == 60
ExampleSpeed == 50
ExampleThresholdIn == 3

Inch(n) == n * TenthMmPerInch
Deg(n) == n * AngUnit

\* ------------------------------------------------------------- arithmetic
Abs(n) == IF n >= 0 THEN n ELSE -n
Sgn(n) == IF n > 0 THEN 1 ELSE IF n < 0 THEN -1 ELSE 0

\* n / d rounded to the nearest integer, halves away from zero (d > 0):
\* the rounding of C's round()
RoundDiv(n, d) ==
    IF n >= 0 THEN (2 * n + d) \div (2 * d) ELSE -((2 * (-n) + d) \div (2 * d))

\* C's integer % and fmod(): the result has the sign of the dividend
CRem(a, n) == IF a >= 0 THEN a % n ELSE -((-a) % n)

\* (int)h of a heading h in angle steps: truncation toward zero, whole degrees
TruncInt(h) == IF h >= 0 THEN h \div AngUnit ELSE -((-h) \div AngUnit)

\* atan of y / x in thousandths of a degree, for 0 <= y <= x, x > 0:
\* 45 t + t (1 - t) (14.02 + 3.80 t), exact at t = 0 and t = 1
AtanMilli(y, x) ==
    LET t == (y * 1000) \div x
        inner == 14020 + (3799 * t) \div 1000
        mid == 45000 + ((1000 - t) * inner) \div 1000
    IN (t * mid) \div 1000

\* atan2 in angle steps, by quadrant
Atan2Steps(dy, dx) ==
    IF dy = 0 THEN (IF dx >= 0 THEN 0 ELSE Deg(180))
    ELSE IF dx = 0 THEN Sgn(dy) * Deg(90)
    ELSE LET ay == Abs(dy)
             ax == Abs(dx)
             base == IF ay <= ax
                     THEN RoundDiv(AtanMilli(ay, ax) * AngUnit, 1000)
                     ELSE Deg(90) - RoundDiv(AtanMilli(ax, ay) * AngUnit, 1000)
         IN Sgn(dy) * (IF dx > 0 THEN base ELSE Deg(180) - base)

\* atan2 with its arguments exchanged
Atan2Deg_Swapped(dy, dx) == Atan2Steps(dx, dy)

\* atan2 of the magnitude of the reading difference
Atan2Deg_Unsigned(dy, dx) == Atan2Steps(Abs(dy), dx)

\* atan2(dy, dx) * 180 / M_PI, in angle steps
Atan2Deg(dy, dx) == Atan2Steps(dy, dx)

\* cos of an angle a (angle steps), in thousandths; for |a| <= 90 degrees
\* (32400 - 4 d^2) / (32400 + d^2) with d in degrees, exact at 0, 60, 90
CosQuarter(a) ==
    RoundDiv(1000 * (32400 * AngUnit * AngUnit - 4 * a * a),
             32400 * AngUnit * AngUnit + a * a)

CosMilli(a) ==
    LET m == Abs(a)
    IN IF m <= Deg(90) THEN CosQuarter(m) ELSE -CosQuarter(Deg(180) - m)

\* r * cos(a) for a length r
TimesCos(r, a) == RoundDiv(r * CosMilli(a), 1000)

\* ------------------------------------------------------ sensor input domain
\* get() returns whole millimetres, or PROS_ERR; -1 stands for a negative value
\* the largest get() value with get() / 25.4 <= 200
MaxValidMm == Inch(MaxPlausible) \div 10

ReadingsMm ==
    {-1, 0, MaxValidMm, MaxValidMm + 1, PROS_ERR}
        \cup {127 * i : i \in 1..MaxReadSteps}

Offsets == {Inch(i) : i \in 1..MaxOffsetIn}
Spacings == {0, Inch(SpacingIn)}
InitHeadings ==
    {Deg(45) * k + j : k \in -MaxEighths..MaxEighths, j \in -MaxOff..MaxOff}
InitPositions == {<<Inch(12 * i), -Inch(5 * (i + 1))>> : i \in 0..MaxTile}

\* get() / 25.4, in length steps
MmToIn(mm) == mm * 10

\* ReadingInvalid with the upper bound of the window left out
ReadingInvalid_NoUpper(mm) == mm < 0

\* d < 0 || d > 200 for d = mm / 25.4.  The comparison is made on the
\* millimetre value (mm * 10 > 200 * 254) so that PROS_ERR is compared at
\* its full width.
ReadingInvalid(mm) == mm < 0 \/ mm > MaxValidMm

\* ------------------------------------------------------ wall classification
\* ((int)h % 360 + 360) % 360
HeadingDeg(h) == (CRem(TruncInt(h), 360) + 360) % 360

\* the ladder with the bottom wall on the positive side
BackWall_BottomPositive(headingDeg) ==
    IF headingDeg >= 315 \/ headingDeg <= 45
    THEN [wall |-> "TOP", resettingX |-> FALSE, wallSign |-> 1,
          expected |-> Deg(180)]
    ELSE IF headingDeg > 45 /\ headingDeg <= 135
    THEN [wall |-> "RIGHT", resettingX |-> TRUE, wallSign |-> 1,
          expected |-> Deg(270)]
    ELSE IF headingDeg > 135 /\ headingDeg <= 225
    THEN [wall |-> "BOTTOM", resettingX |-> FALSE, wallSign |-> 1,
          expected |-> Deg(0)]
    ELSE [wall |-> "LEFT", resettingX |-> TRUE, wallSign |-> -1,
          expected |-> Deg(90)]

\* the ladder with the top wall resetting X
BackWall_TopResetsX(headingDeg) ==
    IF headingDeg >= 315 \/ headingDeg <= 45
    THEN [wall |-> "TOP", resettingX |-> TRUE, wallSign |-> 1,
          expected |-> Deg(180)]
    ELSE IF headingDeg > 45 /\ headingDeg <= 135
    THEN [wall |-> "RIGHT", resettingX |-> TRUE, wallSign |-> 1,
          expected |-> Deg(270)]
    ELSE IF headingDeg > 135 /\ headingDeg <= 225
    THEN [wall |-> "BOTTOM", resettingX |-> FALSE, wallSign |-> -1,
          expected |-> Deg(0)]
    ELSE [wall |-> "LEFT", resettingX |-> TRUE, wallSign |-> -1,
          expected |-> Deg(90)]

\* the ladder with the heading that faces the top wall as its expected heading
BackWall_TopExpectsFacing(headingDeg) ==
    IF headingDeg >= 315 \/ headingDeg <= 45
    THEN [wall |-> "TOP", resettingX |-> FALSE, wallSign |-> 1,
          expected |-> Deg(0)]
    ELSE IF headingDeg > 45 /\ headingDeg <= 135
    THEN [wall |-> "RIGHT", resettingX |-> TRUE, wallSign |-> 1,
          expected |-> Deg(270)]
    ELSE IF headingDeg > 135 /\ headingDeg <= 225
    THEN [wall |-> "BOTTOM", resettingX |-> FALSE, wallSign |-> -1,
          expected |-> Deg(0)]
    ELSE [wall |-> "LEFT", resettingX |-> TRUE, wallSign |-> -1,
          expected |-> Deg(90)]

\* the if / else ladder of resetPositionAndHeadingBack
BackWall(headingDeg) ==
    IF headingDeg >= 315 \/ headingDeg <= 45
    THEN [wall |-> "TOP", resettingX |-> FALSE, wallSign |-> 1,
          expected |-> Deg(180)]
    ELSE IF headingDeg > 45 /\ headingDeg <= 135
    THEN [wall |-> "RIGHT", resettingX |-> TRUE, wallSign |-> 1,
          expected |-> Deg(270)]
    ELSE IF headingDeg > 135 /\ headingDeg <= 225
    THEN [wall |-> "BOTTOM", resettingX |-> FALSE, wallSign |-> -1,
          expected |-> Deg(0)]
    ELSE [wall |-> "LEFT", resettingX |-> TRUE, wallSign |-> -1,
          expected |-> Deg(90)]

\* the ladder of resetPositionLeft with the right wall resetting Y
LeftWall_RightResetsY(headingDeg) ==
    IF headingDeg >= 315 \/ headingDeg <= 45
    THEN [wall |-> "TOP", resettingX |-> FALSE, wallSign |-> 1]
    ELSE IF headingDeg > 45 /\ headingDeg <= 135
    THEN [wall |-> "RIGHT", resettingX |-> FALSE, wallSign |-> 1]
    ELSE IF headingDeg > 135 /\ headingDeg <= 225
    THEN [wall |-> "BOTTOM", resettingX |-> FALSE, wallSign |-> -1]
    ELSE [wall |-> "LEFT", resettingX |-> TRUE, wallSign |-> -1]

\* the ladder of resetPositionLeft
LeftWall(headingDeg) ==
    IF headingDeg >= 315 \/ headingDeg <= 45
    THEN [wall |-> "TOP", resettingX |-> FALSE, wallSign |-> 1]
    ELSE IF headingDeg > 45 /\ headingDeg <= 135
    THEN [wall |-> "RIGHT", resettingX |-> TRUE, wallSign |-> 1]
    ELSE IF headingDeg > 135 /\ headingDeg <= 225
    THEN [wall |-> "BOTTOM", resettingX |-> FALSE, wallSign |-> -1]
    ELSE [wall |-> "LEFT", resettingX |-> TRUE, wallSign |-> -1]

\* the ladder of resetPositionRight with the left wall on the positive side
RightWall_LeftPositive(headingDeg) ==
    IF headingDeg >= 315 \/ headingDeg <= 45
    THEN [wall |-> "TOP", resettingX |-> FALSE, wallSign |-> 1]
    ELSE IF headingDeg > 45 /\ headingDeg <= 135
    THEN [wall |-> "RIGHT", resettingX |-> TRUE, wallSign |-> 1]
    ELSE IF headingDeg > 135 /\ headingDeg <= 225
    THEN [wall |-> "BOTTOM", resettingX |-> FALSE, wallSign |-> -1]
    ELSE [wall |-> "LEFT", resettingX |-> TRUE, wallSign |-> 1]

\* the ladder of resetPositionRight
RightWall(headingDeg) ==
    IF headingDeg >= 315 \/ headingDeg <= 45
    THEN [wall |-> "TOP", resettingX |-> FALSE, wallSign |-> 1]
    ELSE IF headingDeg > 45 /\ headingDeg <= 135
    THEN [wall |-> "RIGHT", resettingX |-> TRUE, wallSign |-> 1]
    ELSE IF headingDeg > 135 /\ headingDeg <= 225
    THEN [wall |-> "BOTTOM", resettingX |-> FALSE, wallSign |-> -1]
    ELSE [wall |-> "LEFT", resettingX |-> TRUE, wallSign |-> -1]

\* ------------------------------------------------------------------ state
VARIABLES
    pose,      \* the chassis pose [x, y, theta], owned by the odometry
    phase,     \* "ready": no routine has run yet; "done": one has returned;
               \* "again": the dual-sensor routine has returned a second time
    call,      \* the routine that ran and the arguments and readings it got
    pre,       \* the chassis pose when the routine was entered
    loc,       \* the routine's local variables when it returned
    io,        \* the calls it made on chassis and printf, in order
    dpc,       \* driveUntilDistance: "idle", "loop", "stop", "done"
    dargs,     \* driveUntilDistance: its arguments
    elapsed,   \* driveUntilDistance: int elapsed
    polls,     \* driveUntilDistance: loop bodies run so far
    reads,     \* driveUntilDistance: the get() values of the last loop body
    cmds,      \* driveUntilDistance: the chassis commands issued, in order
    comboMode,        \* OuttakeControl::comboMode
    L1_lastState,     \* OuttakeControl::L1_lastState
    midScoringMode,   \* OuttakeControl::midScoringMode
    X_lastState,      \* OuttakeControl::X_lastState
    unjamStartTime,   \* OuttakeControl::unjamStartTime
    isUnjamming,      \* OuttakeControl::isUnjamming
    now,              \* pros::millis() at the last update()
    olast,            \* the last OuttakeControl call: "none", "update", "cancelCombo"
    ocalls            \* the motor, piston and intake calls that call made, in order

corrVars == <<pose, phase, call, pre, loc, io>>
driveVars == <<dpc, dargs, elapsed, polls, reads, cmds>>
outVars == <<comboMode, L1_lastState, midScoringMode, X_lastState,
             unjamStartTime, isUnjamming, now, olast, ocalls>>
vars == <<pose, phase, call, pre, loc, io, dpc, dargs, elapsed, polls, reads, cmds,
          comboMode, L1_lastState, midScoringMode, X_lastState,
          unjamStartTime, isUnjamming, now, olast, ocalls>>

NoCall == [op |-> "none"]
NoLoc == [valid |-> FALSE]
NoArgs == [threshold |-> 0, speed |-> 0, forwards |-> TRUE, timeout_ms |-> 0]

\* ------------------------------------------- resetPositionAndHeadingBack
\* the heading written as computed, without the normalization
NormalizeHeading_None(h) == h

\* fmod(corrected_heading + 360, 360)
NormalizeHeading(h) == CRem(h + Deg(360), Deg(360))

\* the locals of a call that passed validation, for chassis pose p
BackLocals(p, mmL, mmR, spacing, left_offset, right_offset, field_half) ==
    LET d_left == MmToIn(mmL)
        d_right == MmToIn(mmR)
        angle_to_wall == Atan2Deg(d_right - d_left, spacing)
        avg_offset == (left_offset + right_offset) \div 2
        avg_reading == (d_left + d_right) \div 2
        corrected_distance == TimesCos(avg_reading, angle_to_wall) + avg_offset
        back_heading == p.theta + Deg(180)
        headingDeg == HeadingDeg(back_heading)
        w == BackWall(headingDeg)
        actualPos == w.wallSign * (field_half - corrected_distance)
        corrected_heading == NormalizeHeading(w.expected - angle_to_wall)
    IN [valid |-> TRUE, pose |-> p, effective |-> back_heading,
        headingDeg |-> headingDeg, wall |-> w.wall,
        resettingX |-> w.resettingX, wallSign |-> w.wallSign,
        expected |-> w.expected, angle |-> angle_to_wall,
        corrected_distance |-> corrected_distance, actualPos |-> actualPos,
        new_x |-> IF w.resettingX THEN actualPos ELSE p.x,
        new_y |-> IF w.resettingX THEN p.y ELSE actualPos,
        new_theta |-> corrected_heading]

\* one execution of the routine's body, from the chassis pose as it is
BackCall(mmL, mmR, spacing, left_offset, right_offset, field_half) ==
    /\ pre' = pose
    /\ call' = [op |-> "back", mmL |-> mmL, mmR |-> mmR, spacing |-> spacing,
                left_offset |-> left_offset, right_offset |-> right_offset,
                field_half |-> field_half]
    /\ IF ReadingInvalid(mmL) \/ ReadingInvalid(mmR)
       THEN /\ io' = <<"printf">>
            /\ loc' = NoLoc
            /\ pose' = pose
       ELSE LET l == BackLocals(pose, mmL, mmR, spacing, left_offset,
                                right_offset, field_half)
            IN /\ loc' = l
               /\ pose' = [x |-> l.new_x, y |-> l.new_y, theta |-> l.new_theta]
               /\ io' = <<"getPose", "setPose", "printf">>
    /\ UNCHANGED <<driveVars, outVars>>

\* the first call of a run
resetPositionAndHeadingBack(mmL, mmR, spacing, left_offset, right_offset, field_half) ==
    /\ phase = "ready"
    /\ phase' = "done"
    /\ BackCall(mmL, mmR, spacing, left_offset, right_offset, field_half)

\* the routine called a second time in a row, after a successful call, with
\* the sensors reading the same and the same spacing and offsets
resetPositionAndHeadingBackAgain ==
    /\ phase = "done"
    /\ call.op = "back"
    /\ loc.valid
    /\ phase' = "again"
    /\ BackCall(call.mmL, call.mmR, call.spacing, call.left_offset,
                call.right_offset, call.field_half)

\* --------------------------------------- resetPositionLeft / resetPositionRight
\* the rounded quotient without the multiplication by 90
NearestPerpendicular_NoScale(h) == RoundDiv(h, Deg(90))

\* round(sensor_heading_deg / 90.0) * 90.0
NearestPerpendicular(h) == RoundDiv(h, Deg(90)) * Deg(90)

LeftLocals(p, mm, sensor_offset, field_half) ==
    LET sensorReading == MmToIn(mm)
        sensor_heading == p.theta + Deg(270)
        headingDeg == HeadingDeg(sensor_heading)
        angle_off == sensor_heading - NearestPerpendicular(sensor_heading)
        corrected_distance == TimesCos(sensorReading, angle_off) + sensor_offset
        w == LeftWall(headingDeg)
        actualPos == w.wallSign * (field_half - corrected_distance)
    IN [valid |-> TRUE, pose |-> p, effective |-> sensor_heading,
        headingDeg |-> headingDeg, wall |-> w.wall,
        resettingX |-> w.resettingX, wallSign |-> w.wallSign,
        angle |-> angle_off,
        corrected_distance |-> corrected_distance, actualPos |-> actualPos,
        new_x |-> IF w.resettingX THEN actualPos ELSE p.x,
        new_y |-> IF w.resettingX THEN p.y ELSE actualPos,
        new_theta |-> p.theta]

RightLocals(p, mm, sensor_offset, field_half) ==
    LET sensorReading == MmToIn(mm)
        sensor_heading == p.theta + Deg(90)
        headingDeg == HeadingDeg(sensor_heading)
        angle_off == sensor_heading - NearestPerpendicular(sensor_heading)
        corrected_distance == TimesCos(sensorReading, angle_off) + sensor_offset
        w == RightWall(headingDeg)
        actualPos == w.wallSign * (field_half - corrected_distance)
    IN [valid |-> TRUE, pose |-> p, effective |-> sensor_heading,
        headingDeg |-> headingDeg, wall |-> w.wall,
        resettingX |-> w.resettingX, wallSign |-> w.wallSign,
        angle |-> angle_off,
        corrected_distance |-> corrected_distance, actualPos |-> actualPos,
        new_x |-> IF w.resettingX THEN actualPos ELSE p.x,
        new_y |-> IF w.resettingX THEN p.y ELSE actualPos,
        new_theta |-> p.theta]

\* resetPositionLeft writing the pose it read back on an invalid reading
resetPositionLeft_WriteOnFault(mm, sensor_offset, field_half) ==
    /\ phase = "ready"
    /\ phase' = "done"
    /\ pre' = pose
    /\ call' = [op |-> "left", mm |-> mm, sensor_offset |-> sensor_offset,
                field_half |-> field_half]
    /\ IF ReadingInvalid(mm)
       THEN /\ io' = <<"printf", "getPose", "setPose">>
            /\ loc' = NoLoc
            /\ pose' = pose
       ELSE LET l == LeftLocals(pose, mm, sensor_offset, field_half)
            IN /\ loc' = l
               /\ pose' = [x |-> l.new_x, y |-> l.new_y, theta |-> l.new_theta]
               /\ io' = <<"getPose", "setPose">>
    /\ UNCHANGED <<driveVars, outVars>>

resetPositionLeft(mm, sensor_offset, field_half) ==
    /\ phase = "ready"
    /\ phase' = "done"
    /\ pre' = pose
    /\ call' = [op |-> "left", mm |-> mm, sensor_offset |-> sensor_offset,
                field_half |-> field_half]
    /\ IF ReadingInvalid(mm)
       THEN /\ io' = <<"printf">>
            /\ loc' = NoLoc
            /\ pose' = pose
       ELSE LET l == LeftLocals(pose, mm, sensor_offset, field_half)
            IN /\ loc' = l
               /\ pose' = [x |-> l.new_x, y |-> l.new_y, theta |-> l.new_theta]
               /\ io' = <<"getPose", "setPose">>
    /\ UNCHANGED <<driveVars, outVars>>

resetPositionRight(mm, sensor_offset, field_half) ==
    /\ phase = "ready"
    /\ phase' = "done"
    /\ pre' = pose
    /\ call' = [op |-> "right", mm |-> mm, sensor_offset |-> sensor_offset,
                field_half |-> field_half]
    /\ IF ReadingInvalid(mm)
       THEN /\ io' = <<"printf">>
            /\ loc' = NoLoc
            /\ pose' = pose
       ELSE LET l == RightLocals(pose, mm, sensor_offset, field_half)
            IN /\ loc' = l
               /\ pose' = [x |-> l.new_x, y |-> l.new_y, theta |-> l.new_theta]
               /\ io' = <<"getPose", "setPose">>
    /\ UNCHANGED <<driveVars, outVars>>

\* ------------------------------------------------------ driveUntilDistance
Timeouts == -MaxTimeoutMs..MaxTimeoutMs
Thresholds == {0, Inch(ExampleThresholdIn)}
Speeds == {ExampleSpeed, DefaultSpeed}
\* get() values during the approach: no reading, 0, and values on both
\* sides of the example threshold (3 in = 76.2 mm)
DriveReadingsMm == {PROS_ERR, 0, 51, 76, 77, 254}

\* reading <= threshold_in for reading = mm / 25.4, compared on the
\* millimetre value (mm * 10 <= threshold) so that PROS_ERR keeps its width
AtOrBelow(mm, threshold_in) == mm <= threshold_in \div 10

\* the stop test without reading > 0
StopReading_NoPositive(mm, threshold_in) == AtOrBelow(mm, threshold_in)

\* reading > 0 && reading <= threshold_in
StopReading(mm, threshold_in) == mm > 0 /\ AtOrBelow(mm, threshold_in)

Tank(l, r) == [cmd |-> "tank", left |-> l, right |-> r]
SetBrakeHold == [cmd |-> "setBrakeMode", mode |-> "HOLD"]

\* the loop condition with <= in place of <
LoopCond_Inclusive(e, timeout_ms) == e <= timeout_ms

\* while (elapsed < timeout_ms)
LoopCond(e, timeout_ms) == e < timeout_ms

\* entry: direction, elapsed = 0, chassis.tank(direction * speed, ...)
DriveStart(threshold_in, speed, forwards, timeout_ms) ==
    /\ dpc = "idle"
    /\ dargs' = [threshold |-> threshold_in, speed |-> speed,
                 forwards |-> forwards, timeout_ms |-> timeout_ms]
    /\ LET direction == IF forwards THEN 1 ELSE -1
       IN cmds' = <<Tank(direction * speed, direction * speed)>>
    /\ elapsed' = 0
    /\ polls' = 0
    /\ reads' = <<>>
    /\ dpc' = "loop"
    /\ UNCHANGED <<corrVars, outVars>>

\* one body of while (elapsed < timeout_ms): m1 is the get() compared with
\* PROS_ERR, m2 the get() converted to inches (not called when m1 is PROS_ERR)
DrivePoll(m1, m2) ==
    /\ dpc = "loop"
    /\ LoopCond(elapsed, dargs.timeout_ms)
    /\ polls' = polls + 1
    /\ IF m1 # PROS_ERR
       THEN /\ reads' = <<m1, m2>>
            /\ IF StopReading(m2, dargs.threshold)
               THEN /\ dpc' = "stop"
                    /\ elapsed' = elapsed
               ELSE /\ dpc' = "loop"
                    /\ elapsed' = elapsed + PollMs
       ELSE /\ m2 = m1
            /\ reads' = <<m1>>
            /\ dpc' = "loop"
            /\ elapsed' = elapsed + PollMs
    /\ UNCHANGED <<dargs, cmds>>
    /\ UNCHANGED <<corrVars, outVars>>

\* the loop condition elapsed < timeout_ms is false
DriveTimeout ==
    /\ dpc = "loop"
    /\ ~LoopCond(elapsed, dargs.timeout_ms)
    /\ dpc' = "stop"
    /\ UNCHANGED <<dargs, elapsed, polls, reads, cmds>>
    /\ UNCHANGED <<corrVars, outVars>>

\* the two closing commands in the other order
DriveBrake_TankFirst ==
    /\ dpc = "stop"
    /\ cmds' = cmds \o <<Tank(0, 0), SetBrakeHold>>
    /\ dpc' = "done"
    /\ UNCHANGED <<dargs, elapsed, polls, reads>>
    /\ UNCHANGED <<corrVars, outVars>>

\* after the loop: setBrakeMode(HOLD); tank(0, 0)
DriveBrake ==
    /\ dpc = "stop"
    /\ cmds' = cmds \o <<SetBrakeHold, Tank(0, 0)>>
    /\ dpc' = "done"
    /\ UNCHANGED <<dargs, elapsed, polls, reads>>
    /\ UNCHANGED <<corrVars, outVars>>

\* ---------------------------------------------------------- OuttakeControl
\* the velocity of Intake.move_velocity and Outtake.move_velocity calls
FullVelocity == 600
\* the delay of the unjam sequence, milliseconds
UnjamDelayMs == 100

MoveIntake(v) == [dev |-> "Intake", v |-> v]
MoveOuttake(v) == [dev |-> "Outtake", v |-> v]
\* MidScoring.set_value(b): v is 1 for true, 0 for false
SetMidScoring(b) == [dev |-> "MidScoring", v |-> IF b THEN 1 ELSE 0]
CancelToggles == [dev |-> "intake.cancelToggles", v |-> 0]

\* OuttakeControl::OuttakeControl()
OuttakeControl ==
    /\ comboMode = FALSE
    /\ L1_lastState = FALSE
    /\ midScoringMode = FALSE
    /\ X_lastState = FALSE
    /\ unjamStartTime = 0
    /\ isUnjamming = FALSE
    /\ now = 0
    /\ olast = "none"
    /\ ocalls = <<>>

\* pros::millis() - unjamStartTime >= 100
UnjamOver(t, start) == t - start >= UnjamDelayMs

\* comboMode when mid-scoring mode is entered, left as it was
ComboOnEnter_Kept(c) == c

\* comboMode when mid-scoring mode is entered: comboMode = false
ComboOnEnter(c) == FALSE

\* OuttakeControl::update(intake), called dt milliseconds after the last
\* update, with the X and L1 buttons reading X_current and L1_current
update(X_current, L1_current, dt) ==
    LET t == now + dt
        \* isUnjamming after the unjam block when it does not return
        unjam1 == isUnjamming /\ ~UnjamOver(t, unjamStartTime)
        rising == X_current /\ ~X_lastState
        entering == rising /\ ~midScoringMode
        mid2 == IF rising THEN ~midScoringMode ELSE midScoringMode
        combo2 == IF entering THEN ComboOnEnter(comboMode) ELSE comboMode
        unjam2 == IF entering THEN TRUE ELSE unjam1
        enterCalls == IF entering THEN <<SetMidScoring(TRUE)>> ELSE <<>>
        L1rising == L1_current /\ ~L1_lastState
        combo3 == IF ~mid2 /\ L1rising THEN ~combo2 ELSE combo2
    IN
    /\ t <= MaxClockMs
    /\ now' = t
    /\ olast' = "update"
    /\ IF isUnjamming /\ ~UnjamOver(t, unjamStartTime)
       THEN \* the unjam still runs: both motors, return
            /\ ocalls' = <<MoveIntake(FullVelocity), MoveOuttake(-FullVelocity)>>
            /\ UNCHANGED <<comboMode, L1_lastState, midScoringMode, X_lastState,
                           unjamStartTime, isUnjamming>>
       ELSE IF rising /\ midScoringMode
       THEN \* leaving mid-scoring mode: stop, return
            /\ midScoringMode' = FALSE
            /\ isUnjamming' = FALSE
            /\ comboMode' = FALSE
            /\ X_lastState' = X_current
            /\ ocalls' = <<SetMidScoring(FALSE), MoveIntake(0), MoveOuttake(0)>>
            /\ UNCHANGED <<L1_lastState, unjamStartTime>>
       ELSE /\ midScoringMode' = mid2
            /\ isUnjamming' = unjam2
            /\ unjamStartTime' = IF entering THEN t ELSE unjamStartTime
            /\ X_lastState' = X_current
            /\ IF mid2 /\ ~unjam2
               THEN \* mid-scoring after the unjam
                    /\ comboMode' = combo2
                    /\ L1_lastState' = L1_current
                    /\ ocalls' = enterCalls \o <<MoveIntake(-FullVelocity),
                                                  MoveOuttake(-FullVelocity)>>
               ELSE IF ~mid2
               THEN \* normal mode: L1 toggles the combo
                    /\ comboMode' = combo3
                    /\ L1_lastState' = L1_current
                    /\ ocalls' = enterCalls
                          \o (IF L1rising
                              THEN IF combo3 THEN <<CancelToggles>>
                                   ELSE <<MoveIntake(0)>>
                              ELSE <<>>)
                          \o (IF combo3
                              THEN <<MoveIntake(FullVelocity),
                                     MoveOuttake(-FullVelocity)>>
                              ELSE <<MoveOuttake(0)>>)
               ELSE \* mid-scoring mode entered in this call: velocity stays 0
                    /\ comboMode' = combo2
                    /\ L1_lastState' = L1_lastState
                    /\ ocalls' = enterCalls \o <<MoveOuttake(0)>>
    /\ UNCHANGED <<corrVars, driveVars>>

\* OuttakeControl::getVelocity()
getVelocity ==
    IF midScoringMode THEN -FullVelocity
    ELSE IF comboMode THEN -FullVelocity
    ELSE 0

\* OuttakeControl::cancelCombo()
cancelCombo ==
    /\ comboMode' = FALSE
    /\ ocalls' = <<MoveOuttake(0)>>
    /\ olast' = "cancelCombo"
    /\ UNCHANGED <<L1_lastState, midScoringMode, X_lastState, unjamStartTime,
                   isUnjamming, now>>
    /\ UNCHANGED <<corrVars, driveVars>>

\* ---------------------------------------------------------- specification
InitDriveVars ==
    /\ dpc = "idle"
    /\ dargs = NoArgs
    /\ elapsed = 0
    /\ polls = 0
    /\ reads = <<>>
    /\ cmds = <<>>

Init ==
    /\ \E xy \in InitPositions, h \in InitHeadings :
        pose = [x |-> xy[1], y |-> xy[2], theta |-> h]
    /\ phase = "ready"
    /\ call = NoCall
    /\ pre = pose
    /\ loc = NoLoc
    /\ io = <<>>
    /\ InitDriveVars
    /\ OuttakeControl

InitDrive ==
    /\ pose = [x |-> 0, y |-> 0, theta |-> 0]
    /\ phase = "ready"
    /\ call = NoCall
    /\ pre = pose
    /\ loc = NoLoc
    /\ io = <<>>
    /\ InitDriveVars
    /\ OuttakeControl

Start ==
    \E th \in Thresholds, sp \in Speeds, fw \in BOOLEAN, to \in Timeouts :
        DriveStart(th, sp, fw, to)

Poll == \E m1 \in DriveReadingsMm, m2 \in DriveReadingsMm : DrivePoll(m1, m2)

NextDrive == Start \/ Poll \/ DriveTimeout \/ DriveBrake

SpecDrive == InitDrive /\ [][NextDrive]_vars

Ticks == {0, TickMs, 2 * TickMs}

InitOuttake ==
    /\ pose = [x |-> 0, y |-> 0, theta |-> 0]
    /\ phase = "ready"
    /\ call = NoCall
    /\ pre = pose
    /\ loc = NoLoc
    /\ io = <<>>
    /\ InitDriveVars
    /\ OuttakeControl

Update == \E x \in BOOLEAN, l1 \in BOOLEAN, dt \in Ticks : update(x, l1, dt)

CancelCombo == cancelCombo

NextOuttake == Update \/ CancelCombo

SpecOuttake == InitOuttake /\ [][NextOuttake]_vars

Back ==
    \E mmL \in ReadingsMm, mmR \in ReadingsMm, spacing \in Spacings,
       lo \in Offsets, ro \in Offsets :
        resetPositionAndHeadingBack(mmL, mmR, spacing, lo, ro, Inch(FieldHalfIn))

Left ==
    \E mm \in ReadingsMm, so \in Offsets :
        resetPositionLeft(mm, so, Inch(FieldHalfIn))

Right ==
    \E mm \in ReadingsMm, so \in Offsets :
        resetPositionRight(mm, so, Inch(FieldHalfIn))

BackAgain == resetPositionAndHeadingBackAgain

Next == Back \/ Left \/ Right \/ BackAgain

Spec == Init /\ [][Next]_vars

\* =================================================================== claims
\* vocabulary of the claims, stated apart from the routines' own code
Returned == phase = "done"
Succeeded == phase = "done" /\ loc.valid
IsBack == call.op = "back"
IsSingle == call.op \in {"left", "right"}

\* the readings a call was given, in millimetres
CallReadings == IF call.op = "back" THEN {call.mmL, call.mmR}
                ELSE IF call.op \in {"left", "right"} THEN {call.mm}
                ELSE {}

\* the effective heading of the routine's sensor face for robot heading h
EffectiveOf(op, h) ==
    h + (IF op = "back" THEN Deg(180) ELSE IF op = "right" THEN Deg(90)
         ELSE Deg(270))

\* normalization of a heading to [0, 360)
Norm360(h) == h % Deg(360)

\* the partition of [0, 360) into walls
PartitionWall(e) ==
    IF e >= Deg(315) \/ e <= Deg(45) THEN "TOP"
    ELSE IF e <= Deg(135) THEN "RIGHT"
    ELSE IF e <= Deg(225) THEN "BOTTOM"
    ELSE "LEFT"

AxisIsX(w) == w \in {"RIGHT", "LEFT"}
SignOf(w) == IF w \in {"TOP", "RIGHT"} THEN 1 ELSE -1

\* a reading below 0 or above 200 inches: mm / 25.4 > 200 iff mm > 5080
OutOfWindow(mm) == mm < 0 \/ mm = PROS_ERR \/ mm * 10 > 200 * 254

\* C1: for every effective heading, whole or not, each corrector selects
\* the wall that the partition [315,360) u [0,45] -> TOP, (45,135] -> RIGHT,
\* (135,225] -> BOTTOM, (225,315) -> LEFT gives for the heading normalized
\* to [0, 360), with that wall's axis and sign.
C1_WallPartition ==
    Succeeded =>
        LET w == PartitionWall(Norm360(EffectiveOf(call.op, pre.theta)))
        IN /\ loc.wall = w
           /\ loc.resettingX = AxisIsX(w)
           /\ loc.wallSign = SignOf(w)

\* C2: a call given a reading that is negative or above 200 inches (the
\* no-reading value included) returns without setPose and leaves the pose
\* as it was; in the dual-sensor routine one such reading is enough.
C2_FaultLeavesPose ==
    (Returned /\ \E mm \in CallReadings : OutOfWindow(mm)) =>
        /\ pose = pre
        /\ \A i \in 1..Len(io) : io[i] # "setPose"

\* C2 witness: the dual-sensor routine returned without a write when only
\* its left reading was the no-reading value
C2_Witness ==
    /\ Returned /\ IsBack
    /\ call.mmL = PROS_ERR /\ call.mmR = 254
    /\ pose = pre /\ io = <<"printf">>

\* C3: a reading of exactly 0 is a sensor fault: a call given a reading of
\* 0 makes no pose write.
C3_ZeroIsFault ==
    (Returned /\ 0 \in CallReadings) =>
        /\ pose = pre
        /\ \A i \in 1..Len(io) : io[i] # "setPose"

\* the heading of a robot whose back squarely faces wall w
ExpectedFor(w) ==
    IF w = "TOP" THEN Deg(180) ELSE IF w = "RIGHT" THEN Deg(270)
    ELSE IF w = "BOTTOM" THEN Deg(0) ELSE Deg(90)

EqualReadings == IsBack /\ call.mmL = call.mmR

\* C4 as stated: from heading 0, equal valid readings r and equal offsets o
\* give y = +(field_half - (r + o)), heading 180, x unchanged.
C4_ScenarioA_AsStated ==
    (Succeeded /\ EqualReadings /\ pre.theta = 0
       /\ call.left_offset = call.right_offset) =>
        /\ pose.y = call.field_half - (call.mmL * 10 + call.left_offset)
        /\ pose.theta = Deg(180)
        /\ pose.x = pre.x

\* C4 amended: from heading 0 the back faces the BOTTOM wall, so equal valid
\* readings r and equal offsets o give y = -(field_half - (r + o)),
\* heading 0, x unchanged.
C4_ScenarioA ==
    (Succeeded /\ EqualReadings /\ pre.theta = 0
       /\ call.left_offset = call.right_offset) =>
        /\ pose.y = -(call.field_half - (call.mmL * 10 + call.left_offset))
        /\ pose.theta = Deg(0)
        /\ pose.x = pre.x

\* C4 witness: scenario A itself (r = 10 in = 254 mm, o = 2, spacing 6,
\* field_half 72) ends with y = -60 and heading 0
C4_Witness ==
    /\ Succeeded /\ IsBack /\ pre.theta = 0
    /\ call.mmL = 254 /\ call.mmR = 254
    /\ call.left_offset = Inch(2) /\ call.right_offset = Inch(2)
    /\ call.spacing = Inch(6) /\ call.field_half = Inch(72)
    /\ pose.y = -Inch(60) /\ pose.theta = 0 /\ pose.x = pre.x

\* C5: with equal valid readings the dual-sensor routine computes
\* angle_to_wall = 0 and writes exactly the classified wall's expected
\* perpendicular heading (TOP 180, RIGHT 270, BOTTOM 0, LEFT 90).
C5_EqualReadingsHeading ==
    (Succeeded /\ EqualReadings) =>
        /\ loc.angle = 0
        /\ pose.theta = ExpectedFor(loc.wall)

\* C5 witness: equal readings against the RIGHT wall from a heading that
\* is not the expected one
C5_Witness ==
    /\ Succeeded /\ EqualReadings /\ call.mmL = 127
    /\ loc.wall = "RIGHT" /\ pre.theta # Deg(270) /\ pose.theta = Deg(270)

\* C6: a successful single-sensor correction writes the classified wall's
\* axis (Y for TOP/BOTTOM, X for LEFT/RIGHT) and leaves the other
\* coordinate and the heading as read by getPose.
C6_SingleFrame ==
    (Succeeded /\ IsSingle) =>
        /\ pose.theta = pre.theta
        /\ IF AxisIsX(loc.wall)
           THEN pose.y = pre.y /\ pose.x = loc.actualPos
           ELSE pose.x = pre.x /\ pose.y = loc.actualPos

\* C6 witness: resetPositionLeft against the RIGHT wall changed x only
C6_Witness ==
    /\ Succeeded /\ call.op = "left" /\ loc.wall = "RIGHT"
    /\ pose.x # pre.x /\ pose.y = pre.y /\ pose.theta = pre.theta
    /\ pre.x # pre.y

\* C7: when the sensor's effective heading (heading + 90 right, + 270
\* left) is an exact multiple of 90, the single-sensor routines write
\* sign * (field_half - (reading + offset)) on the axis of the wall in
\* that direction, and nothing else.
C7_Perpendicular ==
    (Succeeded /\ IsSingle
       /\ EffectiveOf(call.op, pre.theta) % Deg(90) = 0) =>
        LET w == PartitionWall(Norm360(EffectiveOf(call.op, pre.theta)))
            c == SignOf(w)
                   * (call.field_half - (call.mm * 10 + call.sensor_offset))
        IN /\ loc.angle = 0
           /\ pose.theta = pre.theta
           /\ IF AxisIsX(w)
              THEN pose.x = c /\ pose.y = pre.y
              ELSE pose.y = c /\ pose.x = pre.x

\* C7 witness: scenario B (heading 90, right sensor, reading 5 in = 127 mm,
\* offset 1, field_half 72) classifies BOTTOM and writes y = -66
C7_Witness ==
    /\ Succeeded /\ call.op = "right" /\ pre.theta = Deg(90)
    /\ call.mm = 127 /\ call.sensor_offset = Inch(1)
    /\ call.field_half = Inch(72)
    /\ loc.wall = "BOTTOM" /\ pose.y = -Inch(66)
    /\ pose.x = pre.x /\ pose.theta = Deg(90)

\* C8: a successful dual-sensor correction writes the corrected coordinate
\* sign * (field_half - corrected_distance) on the classified wall's axis,
\* leaves the other coordinate as read, and writes the corrected heading
\* expected - angle_to_wall normalized to [0, 360).
C8_BackFrame ==
    (Succeeded /\ IsBack) =>
        LET c == SignOf(loc.wall) * (call.field_half - loc.corrected_distance)
        IN /\ pose.theta = Norm360(ExpectedFor(loc.wall) - loc.angle)
           /\ IF AxisIsX(loc.wall)
              THEN pose.x = c /\ pose.y = pre.y
              ELSE pose.y = c /\ pose.x = pre.x

\* C8 witness: unequal readings against the TOP wall: y and the heading
\* changed, x kept
C8_Witness ==
    /\ Succeeded /\ IsBack /\ loc.wall = "TOP" /\ loc.angle > 0
    /\ pose.x = pre.x /\ pose.y # pre.y
    /\ pose.theta # pre.theta /\ pose.theta = Deg(180) - loc.angle

\* C9: the heading written by the dual-sensor routine lies in [0, 360),
\* for angle_to_wall anywhere in [-90, 90] (spacing 0 gives +-90).
C9_HeadingNormalized ==
    (Succeeded /\ IsBack) =>
        /\ -Deg(90) <= loc.angle /\ loc.angle <= Deg(90)
        /\ 0 <= pose.theta /\ pose.theta < Deg(360)

\* C9 witness: spacing 0, angle_to_wall = -90 against the wall whose
\* expected heading is 270: 270 + 90 = 360 is written as 0
C9_Witness ==
    /\ Succeeded /\ IsBack /\ call.spacing = 0
    /\ loc.angle = -Deg(90) /\ loc.expected = Deg(270) /\ pose.theta = 0

\* ------------------------------------------------- driveUntilDistance claims
\* the least integer >= a / b, for b > 0
CeilDiv(a, b) == -((-a) \div b)

Max(a, b) == IF a >= b THEN a ELSE b

\* the loop was left by break: its last body compared a valid reading at
\* or below the threshold
BrokeOut ==
    /\ Len(reads) = 2
    /\ reads[2] # PROS_ERR /\ reads[2] > 0
    /\ reads[2] * 10 <= dargs.threshold

\* the loop was left because elapsed reached timeout_ms
TimedOut == dpc \in {"stop", "done"} /\ ~BrokeOut

\* the last two chassis commands are setBrakeMode(HOLD), tank(0, 0)
Braked ==
    /\ Len(cmds) = 3
    /\ cmds[2] = [cmd |-> "setBrakeMode", mode |-> "HOLD"]
    /\ cmds[3] = [cmd |-> "tank", left |-> 0, right |-> 0]

\* C10 as stated: for every timeout_ms at most ceil(timeout_ms / 10) polls,
\* and on a timeout exit timeout_ms <= elapsed < timeout_ms + 10, then the
\* brake.
C10_AsStated ==
    dpc # "idle" =>
        /\ polls <= CeilDiv(dargs.timeout_ms, 10)
        /\ TimedOut =>
             /\ dargs.timeout_ms <= elapsed
             /\ elapsed < dargs.timeout_ms + 10
        /\ dpc = "done" => Braked

\* C10 amended: at most max(0, ceil(timeout_ms / 10)) polls; the routine is
\* never stuck before it has braked; on a timeout exit elapsed >= timeout_ms,
\* with elapsed < timeout_ms + 10 when timeout_ms >= 0 and elapsed = 0 and no
\* poll when timeout_ms < 0; then the brake.
C10_BoundedPolling ==
    dpc # "idle" =>
        /\ polls <= Max(0, CeilDiv(dargs.timeout_ms, 10))
        /\ dpc \in {"loop", "stop"} => ENABLED NextDrive
        /\ dpc = "loop" => elapsed = 10 * polls
        /\ TimedOut =>
             /\ dargs.timeout_ms <= elapsed
             /\ IF dargs.timeout_ms >= 0
                THEN elapsed < dargs.timeout_ms + 10
                ELSE elapsed = 0 /\ polls = 0
        /\ dpc = "done" => Braked

\* C10 witness: timeout_ms = 25 and no stop reading: 3 polls, elapsed 30,
\* braked
C10_Witness ==
    /\ dpc = "done" /\ TimedOut /\ dargs.timeout_ms = 25
    /\ polls = 3 /\ elapsed = 30 /\ Braked

\* C11: the loop is left before the timeout only at a poll whose compared
\* value is a valid reading (not PROS_ERR, above 0) at or below threshold_in;
\* a poll with a fault reading leaves the loop running, and a poll that
\* compares a valid reading at or below the threshold ends the loop at that
\* poll, without counting a further interval.
C11_StopOnlyOnValidReading ==
    dpc # "idle" =>
        /\ (dpc \in {"stop", "done"} /\ elapsed < dargs.timeout_ms) => BrokeOut
        /\ (dpc = "loop" /\ polls > 0) => ~BrokeOut
        /\ BrokeOut =>
             /\ dpc \in {"stop", "done"}
             /\ elapsed = 10 * (polls - 1)
             /\ elapsed < dargs.timeout_ms

\* C11 witness: two polls without a stop reading, then the third compares
\* 76 mm with the 3 in (76.2 mm) threshold and ends the loop at elapsed 20
\* of 25
C11_Witness ==
    /\ dpc = "stop" /\ BrokeOut /\ polls = 3 /\ elapsed = 20
    /\ dargs.timeout_ms = 25 /\ dargs.threshold = Inch(3)
    /\ reads = <<254, 76>>

\* C11 witness of the fault case: a poll that got PROS_ERR left the loop
\* running
C11_FaultPollContinues ==
    dpc = "loop" /\ polls = 1 /\ reads = <<PROS_ERR>> /\ elapsed = 10

\* ------------------------------------------------ relations between calls
\* the locals of the same dual-sensor call with the left and right readings
\* and offsets exchanged, from the same chassis pose
SwappedLocals ==
    BackLocals(pre, call.mmR, call.mmL, call.spacing, call.right_offset,
               call.left_offset, call.field_half)

\* C12: exchanging the left and right readings and offsets of a dual-sensor
\* call negates angle_to_wall and leaves the corrected distance the same.
C12_Antisymmetry ==
    (Succeeded /\ IsBack) =>
        /\ SwappedLocals.angle = -loc.angle
        /\ SwappedLocals.corrected_distance = loc.corrected_distance

\* C12 witness: unequal readings and unequal offsets with a positive angle,
\* whose exchange has the negative angle
C12_Witness ==
    /\ Succeeded /\ IsBack
    /\ call.mmL = 127 /\ call.mmR = 254
    /\ call.left_offset # call.right_offset /\ call.spacing = Inch(6)
    /\ loc.angle > 0 /\ SwappedLocals.angle < 0

\* ------------------------------------------- driveUntilDistance commands
\* the opening command for the call's arguments: both sides at d * speed
OpeningCommand ==
    LET d == IF dargs.forwards THEN 1 ELSE -1
    IN [cmd |-> "tank", left |-> d * dargs.speed, right |-> d * dargs.speed]

\* C13: on every exit path the commands are one tank(d * speed, d * speed)
\* issued before any poll, then after the loop setBrakeMode(HOLD) followed
\* by tank(0, 0), and nothing else; a timeout exit ends as a threshold exit.
C13_CommandSequence ==
    /\ dpc \in {"loop", "stop"} => cmds = <<OpeningCommand>>
    /\ dpc = "done" =>
         cmds = <<OpeningCommand,
                  [cmd |-> "setBrakeMode", mode |-> "HOLD"],
                  [cmd |-> "tank", left |-> 0, right |-> 0]>>

\* C13 witness: backwards at speed 50 with timeout_ms <= 0: no poll, and
\* the three commands
C13_Witness ==
    /\ dpc = "done" /\ polls = 0 /\ dargs.timeout_ms = 0
    /\ ~dargs.forwards /\ dargs.speed = 50
    /\ cmds = <<[cmd |-> "tank", left |-> -50, right |-> -50],
                [cmd |-> "setBrakeMode", mode |-> "HOLD"],
                [cmd |-> "tank", left |-> 0, right |-> 0]>>

\* ------------------------------------------------------ pose reads and writes
IsPoseCall(c) == c \in {"getPose", "setPose"}

\* the getPose and setPose calls of the routine that returned, in order
PoseCalls == SelectSeq(io, IsPoseCall)

\* the locals the routine that returned computes from the pose at its
\* entry and the readings it was given
LocalsFromEntry ==
    IF call.op = "back"
    THEN BackLocals(pre, call.mmL, call.mmR, call.spacing, call.left_offset,
                    call.right_offset, call.field_half)
    ELSE IF call.op = "left"
    THEN LeftLocals(pre, call.mm, call.sensor_offset, call.field_half)
    ELSE RightLocals(pre, call.mm, call.sensor_offset, call.field_half)

\* C14: a call makes at most one getPose and at most one setPose; a
\* successful call makes exactly one getPose and then exactly one setPose,
\* and the pose written is computed from that snapshot and the call's
\* readings; a faulted call makes no setPose.
C14_OneReadOneWrite ==
    Returned =>
        /\ PoseCalls \in {<<>>, <<"getPose", "setPose">>}
        /\ loc.valid =>
             /\ PoseCalls = <<"getPose", "setPose">>
             /\ loc.pose = pre
             /\ pose = [x |-> LocalsFromEntry.new_x,
                        y |-> LocalsFromEntry.new_y,
                        theta |-> LocalsFromEntry.new_theta]
        /\ ~loc.valid => PoseCalls = <<>> /\ pose = pre

\* C14 witness: a successful resetPositionRight read the pose once and
\* then wrote it once
C14_Witness ==
    /\ Succeeded /\ call.op = "right" /\ io = <<"getPose", "setPose">>
    /\ pose # pre

\* ---------------------------------------------------------- second call
\* the dual-sensor routine has returned from its second call in a row;
\* pre is then the pose its first call wrote, loc the second call's locals
CalledTwice == phase = "again"

\* C15 as stated: for every prior pose and every pair of valid readings the
\* second call leaves the pose the first call wrote (taken here with a
\* positive spacing, as the configuration requires).
C15_Idempotent_AsStated == (CalledTwice /\ call.spacing > 0) => pose = pre

\* C15 amended: when angle_to_wall is at most 44 degrees in magnitude the
\* heading written by the first call, plus 180, is classified as the same
\* wall, and the second call writes the same coordinate and heading.
C15_IdempotentSmallAngle ==
    (CalledTwice /\ Abs(loc.angle) <= Deg(44)) =>
        /\ pose = pre
        /\ loc.expected = ExpectedFor(loc.wall)
        /\ pre.theta = Norm360(loc.expected - loc.angle)

\* C15 witness: a second call with readings 5 in apart over a 6 in spacing
\* (about 40 degrees) left the pose written by the first
C15_Witness ==
    /\ CalledTwice /\ call.mmL = 0 /\ call.mmR = 127
    /\ call.spacing = Inch(6)
    /\ loc.angle > Deg(30) /\ loc.angle <= Deg(44) /\ pose = pre

\* ------------------------------------------------- the written coordinate
\* the coordinate of the chassis pose on the classified wall's axis
WrittenCoordinate == IF AxisIsX(loc.wall) THEN pose.x ELSE pose.y

\* twice the (average) reading plus (average) offset of the call, in
\* length steps
TwiceReadingPlusOffset ==
    IF call.op = "back"
    THEN (call.mmL + call.mmR) * 10 + call.left_offset + call.right_offset
    ELSE 2 * (call.mm * 10 + call.sensor_offset)

\* C16 as stated: after every successful correction (readings in [0, 200],
\* offsets >= 0) the overwritten coordinate c has |c| <= field_half and is
\* on the classified wall's side of the origin.
C16_InsideField_AsStated ==
    Succeeded =>
        /\ Abs(WrittenCoordinate) <= call.field_half
        /\ SignOf(loc.wall) * WrittenCoordinate >= 0

\* C16 amended: the same when the (average) reading plus the (average)
\* offset is at most field_half.
C16_InsideField ==
    (Succeeded /\ TwiceReadingPlusOffset <= 2 * call.field_half) =>
        /\ Abs(WrittenCoordinate) <= call.field_half
        /\ SignOf(loc.wall) * WrittenCoordinate >= 0

\* C16 witness: a left-sensor correction against the LEFT wall at an angle,
\* reading 10 in, offset 2 in: x is negative and inside the field
C16_Witness ==
    /\ Succeeded /\ call.op = "left" /\ loc.wall = "LEFT"
    /\ call.mm = 254 /\ call.sensor_offset = Inch(2) /\ loc.angle # 0
    /\ pose.x < 0 /\ pose.x >= -Inch(72) + Inch(2)

\* ------------------------------------------------ headings a turn apart
\* the locals the routine that returned would compute had the chassis
\* heading been k whole turns further
LocalsTurned(k) ==
    LET p == [pre EXCEPT !.theta = @ + Deg(360) * k]
    IN IF call.op = "back"
       THEN BackLocals(p, call.mmL, call.mmR, call.spacing, call.left_offset,
                       call.right_offset, call.field_half)
       ELSE IF call.op = "left"
       THEN LeftLocals(p, call.mm, call.sensor_offset, call.field_half)
       ELSE RightLocals(p, call.mm, call.sensor_offset, call.field_half)

\* C17: for every pose heading h, negative and fractional ones included,
\* and every integer k, each corrector selects the same wall (axis and
\* sign) for h and for h + 360 k.
C17_ClassificationPeriodic ==
    Succeeded =>
        \A k \in -MaxTurns..MaxTurns :
            /\ LocalsTurned(k).wall = loc.wall
            /\ LocalsTurned(k).resettingX = loc.resettingX
            /\ LocalsTurned(k).wallSign = loc.wallSign

\* ------------------------------------------- wall of the cosine correction
\* the direction a wall is faced in: TOP 0, RIGHT 90, BOTTOM 180, LEFT 270
DirectionOf(w) ==
    IF w = "TOP" THEN Deg(0) ELSE IF w = "RIGHT" THEN Deg(90)
    ELSE IF w = "BOTTOM" THEN Deg(180) ELSE Deg(270)

\* an effective heading exactly 45 degrees from two walls
OnDiagonal(e) == Norm360(e) % Deg(90) = Deg(45)

\* C18: in resetPositionLeft and resetPositionRight, for every effective
\* heading not exactly 45 degrees from two walls, the direction of the
\* classified wall is the nearest multiple of 90 to the effective heading,
\* modulo 360, and the angle_off used lies within [-45, 45].
C18_ClassifiedWallIsNearest ==
    (Succeeded /\ IsSingle /\ ~OnDiagonal(loc.effective)) =>
        /\ DirectionOf(loc.wall) = Norm360(NearestPerpendicular(loc.effective))
        /\ Abs(loc.angle) <= Deg(45)

\* ------------------------------------------------------------ OuttakeControl
\* C19: after any sequence of update() and cancelCombo() calls, with any
\* button inputs and any timing, midScoringMode and comboMode are never
\* both true, and isUnjamming is true only while midScoringMode is true.
C19_ModesExclusive ==
    /\ ~(midScoringMode /\ comboMode)
    /\ isUnjamming => midScoringMode

\* mid-scoring mode was entered by an update() and its unjam runs, after
\* the L1 button had been seen pressed in normal mode
C19_Witness ==
    olast = "update" /\ midScoringMode /\ isUnjamming /\ L1_lastState

\* the velocity most recently commanded to the Outtake motor
OuttakeCommanded ==
    LET idx == {i \in 1..Len(ocalls) : ocalls[i].dev = "Outtake"}
    IN ocalls[CHOOSE i \in idx : \A j \in idx : j <= i].v

\* C20: after every update() or cancelCombo() call, getVelocity() equals
\* the velocity most recently commanded to the Outtake motor, the call
\* that enters mid-scoring mode and the unjam window included.
C20_VelocityReported ==
    olast # "none" => getVelocity = OuttakeCommanded

====
